---- MODULE Spec2Model ----
(***************************************************************************)
(* Model of the Feishu API client core of src/api_servers.py:              *)
(* ApiClient (tenant-token acquisition, error-envelope check, retry loop)  *)
(* and an endpoint method (MessageApiClient.send, representative of every  *)
(* endpoint method: all of them authorize, build the Authorization header  *)
(* and go through _send_with_retries).                                     *)
(*                                                                         *)
(* One client is used sequentially.  The remote side is the environment:   *)
(* each HTTP call is answered by a nondeterministically chosen outcome.    *)
(***************************************************************************)
EXTENDS Integers, Sequences, FiniteSets, TLC

\* ---------------------------------------------------------------- bounds
\* largest max_retries a client is constructed with
MaxRetries == 3
\* number of endpoint calls made on the client
MaxCalls == 2
\* interpreter recursion limit (nested frames allowed before RecursionError)
RecursionLimit == 40
\* number of clock advances
MaxTicks == 5
\* longest list or tuple inside a converted dict
MaxLen == 1

\* ------------------------------------------------------ program constants
\* ApiClient.__init__: retry_delay: int = 2
DefaultRetryDelay == 2

\* ------------------------------------------------------------ HTTP values
\* Python's None where a string is expected (dict.get without default)
None == "None"

\* HTTP statuses the remote side answers with: success, redirection,
\* client error, server error
Statuses == {200, 304, 404, 503}
\* envelope codes: success, "unclassified", an application error
Codes == {0, -1, 40001}
Msgs == {"m"}
Tokens == {"t1", "t2"}

\* a JSON body that is not an envelope field carrier (body of a reply whose
\* text is not JSON, never read)
NoBody == [raw |-> "not json"]

\* dict.get(key, default)
Get(d, key, default) == IF key \in DOMAIN d THEN d[key] ELSE default

\* decoded JSON envelopes {code, msg}, each field present or absent
EndpointBodies ==
    [code : Codes, msg : Msgs] \cup [code : Codes] \cup [msg : Msgs] \cup {<<>>}

\* decoded JSON bodies of the tenant-token endpoint
AuthBodies ==
    [code : Codes, msg : Msgs, tenant_access_token : Tokens]
        \cup [code : Codes, msg : Msgs]
        \cup [code : Codes \ {0}]
        \cup [msg : Msgs, tenant_access_token : Tokens]

\* the HTTP call raised requests.exceptions.ConnectionError: no response
ConnFail == [received |-> FALSE, status |-> 0, valid_json |-> FALSE, body |-> NoBody]

Replies(bodies) ==
    [received : {TRUE}, status : Statuses, valid_json : {TRUE}, body : bodies]
        \cup [received : {TRUE}, status : Statuses, valid_json : {FALSE}, body : {NoBody}]
        \cup {ConnFail}

\* ------------------------------------------------------------- exceptions
NoException == [type |-> "none"]
\* variant: the constructor forgets to keep msg
LarkException_drops_msg(code, msg) == [type |-> "LarkException", code |-> code, msg |-> None]
\* LarkException.__init__: keeps code and msg
LarkException(code, msg) == [type |-> "LarkException", code |-> code, msg |-> msg]
\* requests.exceptions.HTTPError raised by raise_for_status, carries the response
HTTPError(resp) == [type |-> "HTTPError", response |-> resp]
\* raised by resp.json() on a body that is not JSON
JSONDecodeError == [type |-> "JSONDecodeError"]
\* raised by requests.post/get/... when the connection fails
ConnectionError == [type |-> "ConnectionError"]
\* raised by "Bearer " + None
TypeError == [type |-> "TypeError"]

\* requests.Response.raise_for_status: raises for 4xx and 5xx only
raise_for_status(resp) ==
    IF 400 <= resp.status /\ resp.status < 600 THEN HTTPError(resp) ELSE NoException

\* variant: the HTTP status is checked before the envelope code
_check_error_response_status_first(resp) ==
    IF raise_for_status(resp) # NoException THEN raise_for_status(resp)
    ELSE IF ~resp.valid_json THEN JSONDecodeError
    ELSE LET code == Get(resp.body, "code", -1)
         IN  IF code # 0
             THEN LarkException(code, Get(resp.body, "msg", None))
             ELSE NoException

\* variant: for code -1 the verdict is left to the HTTP status alone
_check_error_response_defers_to_status(resp) ==
    IF ~resp.valid_json THEN JSONDecodeError
    ELSE LET code == Get(resp.body, "code", -1)
         IN  IF code # 0
             THEN IF code = -1
                  THEN raise_for_status(resp)
                  ELSE LarkException(code, Get(resp.body, "msg", None))
             ELSE NoException

\* ApiClient._check_error_response: the exception it raises, or NoException
_check_error_response(resp) ==
    IF ~resp.valid_json THEN JSONDecodeError
    ELSE LET response_dict == resp.body
             code == Get(response_dict, "code", -1)
         IN  IF code # 0
             THEN IF code = -1 /\ raise_for_status(resp) # NoException
                  THEN raise_for_status(resp)
                  ELSE LarkException(code, Get(response_dict, "msg", None))
             ELSE NoException

\* ------------------------------------------------------------------ state
VARIABLES
    max_retries,     \* self._max_retries
    tenant_token,    \* self._tenant_access_token
    pc,              \* "idle" | "authorize" | "attempt" (in the retry loop) | "done"
    calls,           \* number of endpoint calls started so far
    attempt,         \* loop variable of _send_with_retries
    headers,         \* headers built by the endpoint method for this call
    requests,        \* endpoint requests sent during this call
    replies,         \* outcome of each endpoint request of this call
    slept,           \* durations passed to time.sleep during this call
    auth_call,       \* call during which the latest token request was sent
    auth_reply,      \* outcome of the latest token request
    log,             \* records emitted through logger during this call
    result           \* how the call ended: returned value or raised exception

\* two callers that share one client instance (threads calling send)
VARIABLES
    c_pc,            \* per caller: "idle" | "authorized" | "built" | "done"
    c_acquired,      \* per caller: token its own token request returned
    c_headers,       \* per caller: Authorization header it built
    c_sent           \* per caller: Authorization header of the request it sent

\* one APIContainer whose attributes are read
VARIABLES
    ga_name,         \* attribute being read
    ga_depth,        \* nested __getattr__ frames on the stack
    ga_result        \* outcome of the read

\* the Credential Store in user-identity mode and the clock
VARIABLES
    identity_mode,              \* "tenant" | "user" | anything else
    oauth_code,                 \* one-time authorization code, "" when none
    user_access_token,
    refresh_token,
    user_access_token_expiry,   \* absolute time
    refresh_token_expiry,       \* absolute time
    now,                        \* the clock, in seconds
    minted,                     \* when and with which expires_in the user token was minted
    u_flip,                     \* changes with every operation on the store
    u_op,                       \* the latest operation and its argument
    u_net,                      \* requests the latest authorization() sent
    u_result                    \* outcome of the latest operation

\* utils: one conversion of a dict to an Obj and back
VARIABLES
    util_d,          \* the dict handed to dict_2_obj
    util_o,          \* the Obj dict_2_obj returned
    util_r,          \* the dict obj_2_dict returned
    util_pc          \* "idle" | "start" | "converted" | "done"

\* the fields of the client other than the shared token, and the call state
seq_other == <<max_retries, pc, calls, attempt, headers, requests,
               replies, slept, auth_call, auth_reply, log, result>>
seq_vars == <<tenant_token, seq_other>>
conc_vars == <<c_pc, c_acquired, c_headers, c_sent>>
cont_vars == <<ga_name, ga_depth, ga_result>>
user_vars == <<identity_mode, oauth_code, user_access_token, refresh_token,
               user_access_token_expiry, refresh_token_expiry, now, minted,
               u_flip, u_op, u_net, u_result>>
util_vars == <<util_d, util_o, util_r, util_pc>>
outside_seq == <<conc_vars, cont_vars, user_vars, util_vars>>
vars == <<seq_vars, conc_vars, cont_vars, user_vars, util_vars>>

NoResult == [kind |-> "none"]
\* variant: the success path has no return statement
Return_missing(v) == [kind |-> "return", is_none |-> TRUE, value |-> [raw |-> "not json"]]
\* "return resp.json()"
Return(v) == [kind |-> "return", is_none |-> FALSE, value |-> v]
ReturnNone == [kind |-> "return", is_none |-> TRUE, value |-> NoBody]
Raise(e) == [kind |-> "raise", exc |-> e]
NoHeaders == [Authorization |-> None]

\* the callers of the shared client, none of them in a call
Callers == {"A", "B"}
ConcIdle ==
    /\ c_pc = [c \in Callers |-> "idle"]
    /\ c_acquired = [c \in Callers |-> None]
    /\ c_headers = [c \in Callers |-> None]
    /\ c_sent = [c \in Callers |-> None]

\* APIContainer.__init__: no attribute is being read
ContIdle ==
    /\ ga_name = None
    /\ ga_depth = 0
    /\ ga_result = "idle"

\* the Credential Store after construction, identity mode given
UserIdle(mode) ==
    /\ identity_mode = mode
    /\ oauth_code = ""
    /\ user_access_token = ""
    /\ refresh_token = ""
    /\ user_access_token_expiry = 0
    /\ refresh_token_expiry = 0
    /\ now = 0
    /\ minted = [at |-> 0, expires_in |-> 0]
    /\ u_flip = FALSE
    /\ u_op = [name |-> "init", arg |-> None, at |-> 0]
    /\ u_net = <<>>
    /\ u_result = NoResult

\* Python values, tagged with their type
Str(x) == [t |-> "str", s |-> x]
Number(n) == [t |-> "int", i |-> n]
NoneValue == [t |-> "NoneType"]
List(q) == [t |-> "list", items |-> q]
Tuple(q) == [t |-> "tuple", items |-> q]
Dict(f) == [t |-> "dict", map |-> f]
\* an Obj instance: its __dict__ (as a dict it stays empty, __init__ only
\* sets attributes)
Instance(f) == [t |-> "Obj", attrs |-> f]

\* utils is not in use
UtilIdle ==
    /\ util_d = Dict(<<>>)
    /\ util_o = NoneValue
    /\ util_r = NoneValue
    /\ util_pc = "idle"

\* ApiClient.__init__: the fields of the client, no call made
SeqInit ==
    /\ max_retries \in -1..MaxRetries
    /\ tenant_token = ""
    /\ pc = "idle"
    /\ calls = 0
    /\ attempt = 0
    /\ headers = NoHeaders
    /\ requests = <<>>
    /\ replies = <<>>
    /\ slept = <<>>
    /\ auth_call = 0
    /\ auth_reply = ConnFail
    /\ log = <<>>
    /\ result = NoResult

\* ApiClient.__init__
Init ==
    /\ ConcIdle
    /\ ContIdle
    /\ UserIdle("tenant")
    /\ UtilIdle
    /\ SeqInit

\* the call ends: value returned or exception raised to the caller
Finish(r) ==
    /\ pc' = "done"
    /\ result' = r

\* variant: the loop body runs before the bound is looked at
EnterRetries_at_least_once ==
    /\ pc' = "attempt"
    /\ result' = NoResult

\* entry of _send_with_retries: range(max_retries) is empty for
\* max_retries <= 0, the function then falls off its end and returns None
EnterRetries ==
    IF max_retries <= 0
    THEN Finish(ReturnNone)
    ELSE /\ pc' = "attempt"
         /\ result' = NoResult

\* variant: a token stored by an earlier call is reused, the token request
\* is skipped
Send_cached ==
    /\ pc \in {"idle", "done"}
    /\ UNCHANGED outside_seq
    /\ calls < MaxCalls
    /\ calls' = calls + 1
    /\ attempt' = 0
    /\ requests' = <<>>
    /\ replies' = <<>>
    /\ slept' = <<>>
    /\ log' = <<>>
    /\ UNCHANGED <<max_retries, tenant_token, auth_call, auth_reply>>
    /\ IF tenant_token \in Tokens
       THEN /\ headers' = [Authorization |-> "Bearer " \o tenant_token]
            /\ EnterRetries
       ELSE /\ pc' = "authorize"
            /\ result' = NoResult
            /\ headers' = NoHeaders

\* MessageApiClient.send is invoked: a new endpoint call starts, its first
\* statement is the call of _authorize_tenant_access_token
Send ==
    /\ pc \in {"idle", "done"}
    /\ UNCHANGED outside_seq
    /\ calls < MaxCalls
    /\ calls' = calls + 1
    /\ pc' = "authorize"
    /\ result' = NoResult
    /\ attempt' = 0
    /\ headers' = NoHeaders
    /\ requests' = <<>>
    /\ replies' = <<>>
    /\ slept' = <<>>
    /\ log' = <<>>
    /\ UNCHANGED <<max_retries, tenant_token, auth_call, auth_reply>>

\* what "resp = method(...); self._check_error_response(resp)" raises
AttemptException(o) ==
    IF ~o.received THEN ConnectionError ELSE _check_error_response(o)

\* ------------------------------------------------------------ log records
\* logger.info(f"func<...> handle success: {resp}")
success_record == [level |-> "info", text |-> "handle success"]
\* variant: the warning does not name the attempt
warning_record_without_index(a, m) == [level |-> "warning", text |-> "retry"]
\* logger.warning(f"func<...> ... {attempt + 1}/{self._max_retries} ... {e}")
warning_record(a, m) == [level |-> "warning", text |-> "retry", attempt |-> a + 1, of |-> m]
\* logger.error(f"func<...> ... {e}") when the attempts are used up
exhausted_record == [level |-> "error", text |-> "max retries exceeded"]
\* LarkException.__init__: logger.error(f"LarkException: {code}:{msg}")
lark_record(e) == [level |-> "error", text |-> "LarkException", code |-> e.code, msg |-> e.msg]
\* the records emitted while the exception e is constructed
constructed(e) == IF e.type = "LarkException" THEN <<lark_record(e)>> ELSE <<>>

\* variant: a failed token request is swallowed, the call goes on with the
\* token the client holds
Authorize_swallows_failure(o) ==
    /\ pc = "authorize"
    /\ UNCHANGED outside_seq
    /\ auth_call' = calls
    /\ auth_reply' = o
    /\ log' = log \o constructed(AttemptException(o))
    /\ UNCHANGED <<max_retries, calls, attempt, requests, replies, slept>>
    /\ IF o.received /\ _check_error_response(o) = NoException
           /\ "tenant_access_token" \in DOMAIN o.body
       THEN tenant_token' = o.body.tenant_access_token
       ELSE UNCHANGED tenant_token
    /\ headers' = [Authorization |-> "Bearer " \o tenant_token']
    /\ EnterRetries

\* variant: the headers are built before the token request, from the token
\* the client held
Authorize_headers_first(o) ==
    /\ pc = "authorize"
    /\ UNCHANGED outside_seq
    /\ auth_call' = calls
    /\ auth_reply' = o
    /\ log' = log \o constructed(AttemptException(o))
    /\ UNCHANGED <<max_retries, calls, attempt, requests, replies, slept>>
    /\ IF ~o.received
       THEN /\ Finish(Raise(ConnectionError))
            /\ UNCHANGED <<tenant_token, headers>>
       ELSE IF _check_error_response(o) # NoException
       THEN /\ Finish(Raise(_check_error_response(o)))
            /\ UNCHANGED <<tenant_token, headers>>
       ELSE /\ tenant_token' = Get(o.body, "tenant_access_token", None)
            /\ headers' = [Authorization |-> "Bearer " \o tenant_token]
            /\ EnterRetries

\* variant: the token request is under the retry policy, an HTTP failure
\* status is slept on and the request made again
Authorize_retried(o) ==
    /\ pc = "authorize"
    /\ UNCHANGED outside_seq
    /\ auth_call' = calls
    /\ auth_reply' = o
    /\ log' = log \o constructed(AttemptException(o))
    /\ UNCHANGED <<max_retries, calls, requests, replies>>
    /\ IF ~o.received
       THEN /\ Finish(Raise(ConnectionError))
            /\ UNCHANGED <<tenant_token, headers, attempt, slept>>
       ELSE IF _check_error_response(o).type = "HTTPError"
               /\ attempt < max_retries - 1
       THEN /\ slept' = Append(slept, DefaultRetryDelay)
            /\ attempt' = attempt + 1
            /\ UNCHANGED <<pc, result, tenant_token, headers>>
       ELSE IF _check_error_response(o) # NoException
       THEN /\ Finish(Raise(_check_error_response(o)))
            /\ UNCHANGED <<tenant_token, headers, attempt, slept>>
       ELSE /\ tenant_token' = Get(o.body, "tenant_access_token", None)
            /\ UNCHANGED <<attempt, slept>>
            /\ IF tenant_token' = None
               THEN /\ Finish(Raise(TypeError))
                    /\ UNCHANGED headers
               ELSE /\ headers' = [Authorization |-> "Bearer " \o tenant_token']
                    /\ EnterRetries

\* variant: the token of the response is stored before the envelope check
Authorize_stores_before_check(o) ==
    /\ pc = "authorize"
    /\ UNCHANGED outside_seq
    /\ auth_call' = calls
    /\ auth_reply' = o
    /\ log' = log \o constructed(AttemptException(o))
    /\ UNCHANGED <<max_retries, calls, attempt, requests, replies, slept>>
    /\ IF ~o.received
       THEN /\ Finish(Raise(ConnectionError))
            /\ UNCHANGED <<tenant_token, headers>>
       ELSE IF ~o.valid_json
       THEN /\ Finish(Raise(JSONDecodeError))
            /\ UNCHANGED <<tenant_token, headers>>
       ELSE /\ tenant_token' = Get(o.body, "tenant_access_token", None)
            /\ IF _check_error_response(o) # NoException
               THEN /\ Finish(Raise(_check_error_response(o)))
                    /\ UNCHANGED headers
               ELSE IF tenant_token' = None
               THEN /\ Finish(Raise(TypeError))
                    /\ UNCHANGED headers
               ELSE /\ headers' = [Authorization |-> "Bearer " \o tenant_token']
                    /\ EnterRetries

\* _authorize_tenant_access_token (one token request, answered by o), and on
\* its return the rest of send up to the first endpoint request: the headers
\* read self.tenant_access_token, then _send_with_retries is entered
Authorize(o) ==
    /\ pc = "authorize"
    /\ UNCHANGED outside_seq
    /\ auth_call' = calls
    /\ auth_reply' = o
    /\ log' = log \o constructed(AttemptException(o))
    /\ UNCHANGED <<max_retries, calls, attempt, requests, replies, slept>>
    /\ IF ~o.received
       THEN /\ Finish(Raise(ConnectionError))
            /\ UNCHANGED <<tenant_token, headers>>
       ELSE IF _check_error_response(o) # NoException
       THEN /\ Finish(Raise(_check_error_response(o)))
            /\ UNCHANGED <<tenant_token, headers>>
       ELSE /\ tenant_token' = Get(o.body, "tenant_access_token", None)
            /\ IF tenant_token' = None
               THEN /\ Finish(Raise(TypeError))
                    /\ UNCHANGED headers
               ELSE /\ headers' = [Authorization |-> "Bearer " \o tenant_token']
                    /\ EnterRetries

\* "except HTTPError as e" catches nothing else: every other exception
\* (LarkException re-raised, ConnectionError, JSONDecodeError) leaves the loop
\* variant: "except Exception as e"
except_Exception(e) == TRUE
except_HTTPError(e) == e.type = "HTTPError"

\* "if attempt < self._max_retries - 1": another iteration follows
\* variant: the bound is off by one, the last attempt is never made
retry_left_off_by_one(a, m) == a < m - 2
\* variant: the failed request is sent again without any bound
retry_left_always(a, m) == TRUE
retry_left(a, m) == a < m - 1

\* variant: a retried attempt first asks for a new token
Attempt_reacquires(o) ==
    /\ pc = "attempt"
    /\ UNCHANGED outside_seq
    /\ requests' = Append(requests, [headers |-> headers])
    /\ replies' = Append(replies, o)
    /\ UNCHANGED <<max_retries, tenant_token, calls, headers, auth_call, auth_reply>>
    /\ LET e == AttemptException(o) IN
       IF e = NoException
       THEN /\ log' = Append(log, success_record)
            /\ Finish(Return(o.body))
            /\ UNCHANGED <<attempt, slept>>
       ELSE IF except_HTTPError(e) /\ retry_left(attempt, max_retries)
       THEN /\ log' = log \o constructed(e) \o <<warning_record(attempt, max_retries)>>
            /\ slept' = Append(slept, DefaultRetryDelay)
            /\ attempt' = attempt + 1
            /\ pc' = "authorize"
            /\ UNCHANGED result
       ELSE /\ log' = log \o constructed(e)
                       \o (IF except_HTTPError(e)
                           THEN <<warning_record(attempt, max_retries), exhausted_record>>
                           ELSE <<>>)
            /\ Finish(Raise(e))
            /\ UNCHANGED <<attempt, slept>>

\* one iteration of the loop of _send_with_retries, answered by o
Attempt(o) ==
    /\ pc = "attempt"
    /\ UNCHANGED outside_seq
    /\ requests' = Append(requests, [headers |-> headers])
    /\ replies' = Append(replies, o)
    /\ UNCHANGED <<max_retries, tenant_token, calls, headers, auth_call, auth_reply>>
    /\ LET e == AttemptException(o) IN
       IF e = NoException
       THEN /\ log' = Append(log, success_record)
            /\ Finish(Return(o.body))
            /\ UNCHANGED <<attempt, slept>>
       ELSE IF except_HTTPError(e) /\ retry_left(attempt, max_retries)
       THEN /\ log' = log \o constructed(e) \o <<warning_record(attempt, max_retries)>>
            /\ slept' = Append(slept, DefaultRetryDelay)
            /\ attempt' = attempt + 1
            /\ UNCHANGED <<pc, result>>
       ELSE /\ log' = log \o constructed(e)
                       \o (IF except_HTTPError(e)
                           THEN <<warning_record(attempt, max_retries), exhausted_record>>
                           ELSE <<>>)
            /\ Finish(Raise(e))
            /\ UNCHANGED <<attempt, slept>>

Next ==
    \/ Send
    \/ \E o \in Replies(AuthBodies) : Authorize(o)
    \/ \E o \in Replies(EndpointBodies) : Attempt(o)

Spec == Init /\ [][Next]_vars

\* every HTTP request is answered or fails (the transport's timeout): a call
\* that waits for the token endpoint or for an endpoint attempt goes on
FairSpec ==
    /\ Spec
    /\ WF_vars(\E o \in Replies(AuthBodies) : Authorize(o))
    /\ WF_vars(\E o \in Replies(EndpointBodies) : Attempt(o))

\* ------------------------------------------- two callers, one shared client
\* caller c runs _authorize_tenant_access_token: one token request answered
\* by o, the envelope check, then the store into the shared field
c_authorize(c, o) ==
    /\ c_pc[c] = "idle"
    /\ UNCHANGED <<seq_other, cont_vars, user_vars, util_vars, c_headers, c_sent>>
    /\ IF AttemptException(o) # NoException
       THEN /\ c_pc' = [c_pc EXCEPT ![c] = "done"]
            /\ UNCHANGED <<tenant_token, c_acquired>>
       ELSE /\ tenant_token' = Get(o.body, "tenant_access_token", None)
            /\ c_acquired' = [c_acquired EXCEPT ![c] = tenant_token']
            /\ c_pc' = [c_pc EXCEPT ![c] = "authorized"]

\* caller c builds its headers: "Bearer " + self.tenant_access_token reads
\* the shared field
c_build_headers(c) ==
    /\ c_pc[c] = "authorized"
    /\ UNCHANGED <<seq_vars, cont_vars, user_vars, util_vars, c_acquired, c_sent>>
    /\ IF tenant_token = None
       THEN /\ c_pc' = [c_pc EXCEPT ![c] = "done"]
            /\ UNCHANGED c_headers
       ELSE /\ c_headers' = [c_headers EXCEPT ![c] = "Bearer " \o tenant_token]
            /\ c_pc' = [c_pc EXCEPT ![c] = "built"]

\* caller c enters _send_with_retries and sends its endpoint request with the
\* headers it built (the retry loop touches no shared field)
c_request(c) ==
    /\ c_pc[c] = "built"
    /\ UNCHANGED <<seq_vars, cont_vars, user_vars, util_vars, c_acquired, c_headers>>
    /\ c_sent' = [c_sent EXCEPT ![c] = c_headers[c]]
    /\ c_pc' = [c_pc EXCEPT ![c] = "done"]

ConcNext ==
    \/ \E c \in Callers, o \in Replies(AuthBodies) : c_authorize(c, o)
    \/ \E c \in Callers : c_build_headers(c)
    \/ \E c \in Callers : c_request(c)

ConcSpec == Init /\ [][ConcNext]_vars

\* ------------------------- Credential Store and Token Authority, user mode
Modes == {"tenant", "user"}
\* the values an identity mode is given
AllModes == Modes \cup {"bot"}
OAuthCodes == {"c1", "c2"}
UserTokens == {"u1", "u2"}
RefreshTokens == {"r1", "r2"}
\* seconds the clock advances by
TickSeconds == 3600
\* expires_in and refresh_token_expires_in the token endpoint answers with
ExpiresIn == {3600, 7200}
RefreshExpiresIn == {14400}

InvalidIdentity == [type |-> "InvalidIdentity"]
MissingCode == [type |-> "MissingCode"]

\* {code, msg, tenant_access_token} and
\* {code, msg, access_token, refresh_token, expires_in, refresh_token_expires_in}
TenantBodies == [code : {0, 40001}, msg : Msgs, tenant_access_token : Tokens]
UserBodies ==
    [code : {0, 40001}, msg : Msgs, access_token : UserTokens,
     refresh_token : RefreshTokens, expires_in : ExpiresIn,
     refresh_token_expires_in : RefreshExpiresIn]
TokenReplies(bodies) ==
    [received : {TRUE}, status : {200}, valid_json : {TRUE}, body : bodies]
        \cup {ConnFail}

\* variant: every value is taken for an identity mode
valid_identity_any(m) == TRUE
\* identity_mode: enum {Tenant, User}
valid_identity(m) == m \in Modes

\* variant: the stored access token is never reused
choose_grant_never_reuses(t, uexp, rexp) ==
    IF t < rexp THEN "refresh_token" ELSE "authorization_code"
\* variant: an expired access token always goes back to the one-time code
choose_grant_skips_refresh(t, uexp, rexp) ==
    IF t < uexp THEN "reuse" ELSE "authorization_code"
\* the staleness cascade: access token, refresh token, authorization code
choose_grant(t, uexp, rexp) ==
    IF t < uexp THEN "reuse"
    ELSE IF t < rexp THEN "refresh_token"
    ELSE "authorization_code"

\* variant: the code stays stored after the exchange
consumed_keeps_code(code) == code
\* the one-time code after a successful exchange: cleared
consumed(code) == ""

\* an operation on the store is recorded
Operation(name, arg) ==
    /\ u_flip' = ~u_flip
    /\ u_op' = [name |-> name, arg |-> arg, at |-> now]

\* set_identity(mode)
set_identity(m) ==
    /\ Operation("set_identity", m)
    /\ u_net' = <<>>
    /\ IF valid_identity(m)
       THEN /\ identity_mode' = m
            /\ u_result' = ReturnNone
       ELSE /\ u_result' = Raise(InvalidIdentity)
            /\ UNCHANGED identity_mode
    /\ UNCHANGED <<seq_vars, conc_vars, cont_vars, util_vars, oauth_code, user_access_token,
                   refresh_token, user_access_token_expiry, refresh_token_expiry,
                   now, minted>>

\* set_oauth_code(code): stores the code, does not fail
set_oauth_code(c) ==
    /\ Operation("set_oauth_code", c)
    /\ u_net' = <<>>
    /\ oauth_code' = c
    /\ u_result' = ReturnNone
    /\ UNCHANGED <<seq_vars, conc_vars, cont_vars, util_vars, identity_mode, user_access_token,
                   refresh_token, user_access_token_expiry, refresh_token_expiry,
                   now, minted>>

\* time passes
tick ==
    /\ now < MaxTicks * TickSeconds
    /\ now' = now + TickSeconds
    /\ UNCHANGED <<seq_vars, conc_vars, cont_vars, util_vars, identity_mode, oauth_code,
                   user_access_token, refresh_token, user_access_token_expiry,
                   refresh_token_expiry, minted, u_flip, u_op, u_net, u_result>>

\* the store after a token response passed the envelope check
StoreUserTokens(body) ==
    /\ user_access_token' = body.access_token
    /\ refresh_token' = body.refresh_token
    /\ user_access_token_expiry' = now + body.expires_in
    /\ refresh_token_expiry' = now + body.refresh_token_expires_in
    /\ minted' = [at |-> now, expires_in |-> body.expires_in]

UserTokensUnchanged ==
    UNCHANGED <<user_access_token, refresh_token, user_access_token_expiry,
                refresh_token_expiry, minted>>

\* authorization(), identity Tenant: always one tenant-token request
authorization_tenant(o) ==
    /\ identity_mode = "tenant"
    /\ o \in TokenReplies(TenantBodies)
    /\ u_net' = <<[grant |-> "tenant_access_token", sent |-> None, reply |-> o]>>
    /\ UNCHANGED oauth_code
    /\ UserTokensUnchanged
    /\ IF AttemptException(o) # NoException
       THEN /\ u_result' = Raise(AttemptException(o))
            /\ UNCHANGED tenant_token
       ELSE /\ tenant_token' = o.body.tenant_access_token
            /\ u_result' = Return("Bearer " \o tenant_token')

\* authorization(), identity User: reuse, refresh, or exchange the code
authorization_user(o) ==
    /\ identity_mode = "user"
    /\ o \in TokenReplies(UserBodies)
    /\ UNCHANGED tenant_token
    /\ LET grant == choose_grant(now, user_access_token_expiry, refresh_token_expiry) IN
       IF grant = "reuse"
       THEN /\ u_net' = <<>>
            /\ u_result' = Return("Bearer " \o user_access_token)
            /\ UNCHANGED oauth_code
            /\ UserTokensUnchanged
       ELSE IF grant = "authorization_code" /\ oauth_code = ""
       THEN /\ u_net' = <<>>
            /\ u_result' = Raise(MissingCode)
            /\ UNCHANGED oauth_code
            /\ UserTokensUnchanged
       ELSE /\ u_net' = <<[grant |-> grant,
                          sent |-> IF grant = "refresh_token"
                                   THEN refresh_token ELSE oauth_code,
                          reply |-> o]>>
            /\ IF AttemptException(o) # NoException
               THEN /\ u_result' = Raise(AttemptException(o))
                    /\ UNCHANGED oauth_code
                    /\ UserTokensUnchanged
               ELSE /\ StoreUserTokens(o.body)
                    /\ u_result' = Return("Bearer " \o o.body.access_token)
                    /\ oauth_code' = IF grant = "authorization_code"
                                     THEN consumed(oauth_code) ELSE oauth_code

\* authorization(), any other identity: fails before any request
authorization_invalid ==
    /\ identity_mode \notin Modes
    /\ u_net' = <<>>
    /\ u_result' = Raise(InvalidIdentity)
    /\ UNCHANGED <<tenant_token, oauth_code>>
    /\ UserTokensUnchanged

\* authorization()
authorization(o) ==
    /\ Operation("authorization", None)
    /\ UNCHANGED <<seq_other, conc_vars, cont_vars, util_vars, identity_mode, now>>
    /\ \/ authorization_tenant(o)
       \/ authorization_user(o)
       \/ authorization_invalid /\ o = ConnFail

UserNext ==
    \/ \E m \in AllModes : set_identity(m)
    \/ \E c \in OAuthCodes : set_oauth_code(c)
    \/ tick
    \/ \E o \in TokenReplies(TenantBodies \cup UserBodies) : authorization(o)

\* a client constructed with any identity value, default retry settings
UserInit ==
    /\ ConcIdle
    /\ ContIdle
    /\ \E m \in AllModes : UserIdle(m)
    /\ UtilIdle
    /\ SeqInit
    /\ max_retries = MaxRetries

UserSpec == UserInit /\ [][UserNext]_vars

\* ------------------------------------------------------------ APIContainer
\* the attributes APIContainer.__init__ sets
Clients == {"spreadsheet", "message", "contact", "cloud", "approval", "task"}
\* the attribute names read from a container
Names == Clients \cup {"_clients", "user", "bot"}

\* container.<name> is read: normal lookup finds the attributes set by
\* __init__; for any other name Python calls __getattr__(name)
getattr(name) ==
    /\ ga_result # "running"
    /\ UNCHANGED <<seq_vars, conc_vars, user_vars, util_vars>>
    /\ ga_name' = name
    /\ IF name \in Clients
       THEN /\ ga_result' = "client"
            /\ ga_depth' = 0
       ELSE /\ ga_result' = "running"
            /\ ga_depth' = 1

\* APIContainer.__getattr__: "self._clients" is evaluated first; _clients is
\* not an attribute __init__ sets, so that read calls __getattr__("_clients"),
\* one frame deeper, until the interpreter raises RecursionError, which
\* unwinds every frame
__getattr__ ==
    /\ ga_result = "running"
    /\ UNCHANGED <<seq_vars, conc_vars, user_vars, util_vars, ga_name>>
    /\ IF "_clients" \in Clients
       THEN /\ ga_result' = "None"
            /\ ga_depth' = 0
       ELSE IF ga_depth < RecursionLimit
       THEN /\ ga_depth' = ga_depth + 1
            /\ UNCHANGED ga_result
       ELSE /\ ga_result' = "RecursionError"
            /\ ga_depth' = 0

ContNext ==
    \/ \E name \in Names : getattr(name)
    \/ __getattr__

ContSpec == Init /\ [][ContNext]_vars

\* ------------------------------------------------------------------ utils
\* isinstance(b, (list, tuple))
IsSequence(b) == b.t \in {"list", "tuple"}

RECURSIVE Obj(_)
\* Obj.__init__(self, d): one attribute per item of d; a list or tuple becomes
\* a list whose dict elements are Obj, a dict becomes an Obj, anything else is
\* kept
Obj(d) ==
    Instance([a \in DOMAIN d.map |->
        LET b == d.map[a] IN
        IF IsSequence(b)
        THEN List([j \in 1..Len(b.items) |->
                     IF b.items[j].t = "dict" THEN Obj(b.items[j]) ELSE b.items[j]])
        ELSE IF b.t = "dict" THEN Obj(b) ELSE b])

dict_2_obj(d) == Obj(d)

RECURSIVE obj_2_dict(_)
\* variant: an attribute of any other type is copied as it is
obj_2_dict_keeps_all(ob) ==
    Dict([a \in DOMAIN ob.attrs |->
        LET b == ob.attrs[a] IN
        IF b.t = "str" THEN b
        ELSE IF IsSequence(b)
        THEN List([j \in 1..Len(b.items) |->
                     IF b.items[j].t = "Obj" THEN obj_2_dict(b.items[j]) ELSE b.items[j]])
        ELSE IF b.t = "Obj" THEN obj_2_dict(b)
        ELSE b])
\* obj_2_dict(o): iterates o.__dict__; a str is copied, a list or tuple
\* becomes a list whose Obj elements are converted, an Obj is converted, an
\* attribute of any other type gets no key
obj_2_dict(ob) ==
    Dict([a \in {k \in DOMAIN ob.attrs :
                    \/ ob.attrs[k].t = "str"
                    \/ IsSequence(ob.attrs[k])
                    \/ ob.attrs[k].t = "Obj"} |->
        LET b == ob.attrs[a] IN
        IF b.t = "str" THEN b
        ELSE IF IsSequence(b)
        THEN List([j \in 1..Len(b.items) |->
                     IF b.items[j].t = "Obj" THEN obj_2_dict(b.items[j]) ELSE b.items[j]])
        ELSE obj_2_dict(b)])

\* the dicts handed in: values a decoded JSON body or a caller can hold
Keys == {"a", "b"}
NestedKeys == {"a"}
Atoms == {Str("s"), Number(1), NoneValue}
SeqsUpTo(S, n) == UNION {[1..k -> S] : k \in 0..n}
Sequences(S) == {List(q) : q \in SeqsUpTo(S, MaxLen)} \cup {Tuple(q) : q \in SeqsUpTo(S, MaxLen)}
Dicts(K, S) == UNION {{Dict(f) : f \in [D -> S]} : D \in SUBSET K}
Inner ==
    Atoms \cup Dicts(NestedKeys, Atoms)
        \cup Sequences(Dicts(NestedKeys, {Str("s"), Number(1)}))
Outer == Atoms \cup Dicts(NestedKeys, Inner) \cup Sequences(Inner)
Inputs ==
    {Dict(f) : f \in UNION {[D -> Outer] : D \in SUBSET {"a"}}}
        \cup {Dict([k \in Keys |-> IF k = "a" THEN x ELSE y]) : x \in Outer, y \in Atoms}

\* o = dict_2_obj(d)
call_dict_2_obj ==
    /\ util_pc = "start"
    /\ util_o' = dict_2_obj(util_d)
    /\ util_pc' = "converted"
    /\ UNCHANGED <<seq_vars, conc_vars, cont_vars, user_vars, util_d, util_r>>

\* r = obj_2_dict(o)
call_obj_2_dict ==
    /\ util_pc = "converted"
    /\ util_r' = obj_2_dict(util_o)
    /\ util_pc' = "done"
    /\ UNCHANGED <<seq_vars, conc_vars, cont_vars, user_vars, util_d, util_o>>

UtilNext == call_dict_2_obj \/ call_obj_2_dict

\* a dict is about to be converted
UtilInit ==
    /\ ConcIdle
    /\ ContIdle
    /\ UserIdle("tenant")
    /\ SeqInit
    /\ max_retries = MaxRetries
    /\ util_d \in Inputs
    /\ util_o = NoneValue
    /\ util_r = NoneValue
    /\ util_pc = "start"

UtilSpec == UtilInit /\ [][UtilNext]_vars

\* ------------------------------------------------- vocabulary of the claims
Done == pc = "done"
Attempts == Len(requests)
Last(q) == q[Len(q)]
Raised(type) == result.kind = "raise" /\ result.exc.type = type

\* a response arrived and its body parsed as JSON
Parsed(o) == o.received /\ o.valid_json
\* parsed envelope with code == 0
CodeZero(o) == Parsed(o) /\ "code" \in DOMAIN o.body /\ o.body.code = 0
\* parsed envelope whose code is non-zero and not -1
AppError(o) == Parsed(o) /\ "code" \in DOMAIN o.body /\ o.body.code \notin {0, -1}
\* parsed envelope whose code is -1 or absent
Unclassified(o) == Parsed(o) /\ ("code" \in DOMAIN o.body => o.body.code = -1)
Is2xx(o) == 200 <= o.status /\ o.status < 300
\* HTTP client or server error status
Is4xx5xx(o) == 400 <= o.status /\ o.status < 600
\* the HTTP call raised a connection error, no response
ConnectionFailed(o) == ~o.received
\* sleeps of retry_delay, n of them
Sleeps(n) == Len(slept) = n /\ \A i \in 1..Len(slept) : slept[i] = DefaultRetryDelay

\* C1: an attempt that receives a parsed envelope with a code other than 0
\* and -1 is the last attempt of its call: the call is over, it raised
\* LarkException, no attempt and no sleep follows that attempt (attempt i was
\* preceded by i-1 sleeps and nothing was slept after it).
C1_AppErrorEndsCall ==
    \A i \in 1..Len(replies) :
        AppError(replies[i]) =>
            /\ i = Len(replies)
            /\ Done
            /\ Raised("LarkException")
            /\ Attempts = i
            /\ Sleeps(i - 1)

\* C1 witness: code 40001 received on the first attempt of a call that could
\* have retried
C1_Witness ==
    /\ max_retries >= 2
    /\ Len(replies) = 1
    /\ AppError(replies[1])
    /\ replies[1].body.code = 40001
    /\ Done

\* C2 (as claimed): when every attempt of a finished call ended in a
\* connection failure, exactly max_retries attempts were made, with a sleep of
\* retry_delay between consecutive attempts, and the transport error is raised.
C2_ConnectionFailureRetried ==
    (Done /\ Attempts >= 1 /\ \A i \in 1..Len(replies) : ConnectionFailed(replies[i]))
        => /\ Attempts = max_retries
           /\ Sleeps(max_retries - 1)
           /\ Raised("ConnectionError")

Transient(o) == ConnectionFailed(o) \/ (Unclassified(o) /\ Is4xx5xx(o))

AcquiredThisCall == auth_call = calls /\ pc \in {"attempt", "done"}
\* the token request was answered with code 0 and a token
AcquisitionSucceeded(o) ==
    CodeZero(o) /\ "tenant_access_token" \in DOMAIN o.body
\* the token request failed: connection failure, HTTP failure status without
\* a usable code, or an envelope with an error code
AcquisitionFailed(o) ==
    \/ ConnectionFailed(o)
    \/ Unclassified(o) /\ Is4xx5xx(o)
    \/ Parsed(o) /\ "code" \in DOMAIN o.body /\ o.body.code # 0

\* C5: every endpoint call, the first and the ones after it, makes its own
\* token request before its endpoint request: whenever the retry loop is
\* entered or an endpoint request has been sent, the latest token request was
\* made during the current call.
C5_AcquisitionEveryCall ==
    (pc = "attempt" \/ requests # <<>>) => auth_call = calls

\* C5 witness: the second of two consecutive calls, made while the client
\* holds the token of the first, has sent its endpoint request
C5_Witness ==
    /\ calls = 2
    /\ requests # <<>>
    /\ auth_call = 2

\* C6: an attempt whose response parses with code == 0 ends the call with the
\* full decoded body of that response as return value, nothing raised, for
\* every HTTP status.
C6_CodeZeroReturnsBody ==
    \A i \in 1..Len(replies) :
        CodeZero(replies[i]) =>
            /\ i = Len(replies)
            /\ Done
            /\ result = [kind |-> "return", is_none |-> FALSE, value |-> replies[i].body]

\* C6 witness: code 0 delivered with HTTP status 503
C6_Witness ==
    /\ Done
    /\ replies # <<>>
    /\ CodeZero(Last(replies))
    /\ Last(replies).status = 503

\* C7: an envelope code other than 0 and -1 makes the error an application
\* error whatever the HTTP status: the endpoint attempt (or the token request)
\* that received it raises LarkException, never HTTPError, and no attempt
\* follows it.
C7_AppErrorWhateverStatus ==
    /\ \A i \in 1..Len(replies) :
          AppError(replies[i]) =>
              /\ Raised("LarkException")
              /\ ~Raised("HTTPError")
              /\ Len(replies) = i
    /\ (AcquiredThisCall /\ AppError(auth_reply)) =>
          (Done /\ Raised("LarkException") /\ requests = <<>>)

\* C7 witness: code 40001 delivered with HTTP status 404 on a first attempt
\* that could have been retried
C7_Witness ==
    /\ max_retries >= 2
    /\ Len(replies) = 1
    /\ AppError(replies[1])
    /\ replies[1].status = 404

\* the response that made the current call raise
RaisingReply == IF requests = <<>> THEN auth_reply ELSE Last(replies)

\* C8: the LarkException a call raises carries the code and the msg of the
\* envelope of the response that caused it, as they are in that envelope.
C8_CodeAndMsgVerbatim ==
    (Done /\ Raised("LarkException")) =>
        /\ Parsed(RaisingReply)
        /\ "code" \in DOMAIN RaisingReply.body => result.exc.code = RaisingReply.body.code
        /\ "msg" \in DOMAIN RaisingReply.body => result.exc.msg = RaisingReply.body.msg

\* C8 witness: an endpoint response with code 40001 and msg "m" after a retry
C8_Witness ==
    /\ Done
    /\ Raised("LarkException")
    /\ Len(replies) = 2
    /\ replies[2].body = [code |-> 40001, msg |-> "m"]

\* C9: when the token request of a call fails, the call is over, it raised
\* the error of the token request, and no endpoint request was sent.
C9_FailedAcquisitionAborts ==
    (AcquiredThisCall /\ AcquisitionFailed(auth_reply)) =>
        /\ Done
        /\ requests = <<>>
        /\ replies = <<>>
        /\ result.kind = "raise"
        /\ ConnectionFailed(auth_reply) => result.exc = [type |-> "ConnectionError"]
        /\ (Unclassified(auth_reply) /\ Is4xx5xx(auth_reply)) =>
               result.exc = [type |-> "HTTPError", response |-> auth_reply]
        /\ AppError(auth_reply) =>
               /\ result.exc.type = "LarkException"
               /\ result.exc.code = auth_reply.body.code

\* C9 witness: the token request of the second call fails with an error code
\* while the client holds the token of the first call
C9_Witness ==
    /\ calls = 2
    /\ auth_call = 2
    /\ tenant_token \in Tokens
    /\ AppError(auth_reply)
    /\ Done

\* C10: every endpoint request carries "Bearer " followed by the token that
\* the token request of the same call returned, and that token request
\* succeeded; the value the token field had before is never sent.
C10_BearerOfThisCall ==
    \A i \in 1..Len(requests) :
        /\ auth_call = calls
        /\ AcquisitionSucceeded(auth_reply)
        /\ requests[i].headers.Authorization
               = "Bearer " \o auth_reply.body.tenant_access_token
        /\ requests[i].headers.Authorization # "Bearer "

\* C10 witness: the second call, after a retry, has sent two requests that
\* carry the token its own token request returned
C10_Witness ==
    /\ calls = 2
    /\ Len(requests) = 2
    /\ auth_reply.received
    /\ Get(auth_reply.body, "tenant_access_token", None) = "t1"
    /\ requests[2].headers.Authorization = "Bearer t1"

\* ------------------------------------------------ unparseable bodies, logs
\* a response arrived whose body is not JSON
Unparseable(o) == o.received /\ ~o.valid_json
\* the records of the current call that name attempt i
RecordsNaming(i) ==
    {j \in 1..Len(log) : "attempt" \in DOMAIN log[j] /\ log[j].attempt = i}
\* the records of the current call with the given text
RecordsOf(text) == {j \in 1..Len(log) : log[j].text = text}
\* the attempts of the current call whose reply satisfies P
AttemptsWhere(P(_)) == {i \in 1..Len(replies) : P(replies[i])}

\* C11 (as claimed): a call whose attempt received a body that is not JSON
\* returns None to the caller and raises nothing.
C11_UnparseableReturnsNone ==
    \A i \in 1..Len(replies) :
        Unparseable(replies[i]) =>
            /\ Done
            /\ result.kind = "return"
            /\ result.is_none

\* C11 (amended): an attempt that receives a body that is not JSON is the
\* last of its call: the call is over and raised the JSON decoding error,
\* nothing is returned, nothing is logged for that attempt and nothing is
\* slept after it.
C11_UnparseableRaises ==
    \A i \in 1..Len(replies) :
        Unparseable(replies[i]) =>
            /\ i = Len(replies)
            /\ Done
            /\ result = [kind |-> "raise", exc |-> [type |-> "JSONDecodeError"]]
            /\ Attempts = i
            /\ Sleeps(i - 1)
            /\ Len(log) = i - 1
            /\ RecordsNaming(i) = {}

\* C11 witness: a first attempt answered 200 with a body that is not JSON,
\* in a call that could have retried
C11_Witness ==
    /\ max_retries >= 2
    /\ Len(replies) = 1
    /\ Unparseable(replies[1])
    /\ replies[1].status = 200
    /\ Done

\* C18 (as claimed): every attempt made so far in the call has a log record
\* that contains its index.
C18_EveryAttemptLoggedWithIndex ==
    \A i \in 1..Len(replies) : RecordsNaming(i) # {}

RetriedKind(o) == Unclassified(o) /\ Is4xx5xx(o)
SilentKind(o) == ConnectionFailed(o) \/ Unparseable(o)
LarkKind(o) == Parsed(o) /\ ~CodeZero(o) /\ ~RetriedKind(o)

\* C18 (amended): an attempt that fails with an HTTPError has exactly one
\* record containing its index (the warning, index = attempt + 1, with
\* max_retries); a successful attempt produces one info record and an attempt
\* that raises LarkException one error record, neither containing an attempt
\* index; an attempt that ends in a connection failure or a body that is not
\* JSON produces no record.
C18_AttemptRecords ==
    /\ \A i \in 1..Len(replies) :
          /\ RetriedKind(replies[i]) <=> Cardinality(RecordsNaming(i)) = 1
          /\ ~RetriedKind(replies[i]) => RecordsNaming(i) = {}
          /\ \A j \in RecordsNaming(i) : log[j].level = "warning" /\ log[j].of = max_retries
    /\ requests # <<>> =>
          /\ Cardinality(RecordsOf("handle success")) = Cardinality(AttemptsWhere(CodeZero))
          /\ Cardinality(RecordsOf("LarkException")) = Cardinality(AttemptsWhere(LarkKind))
          /\ Cardinality(RecordsOf("retry")) = Cardinality(AttemptsWhere(RetriedKind))
          /\ \A j \in RecordsOf("handle success") \cup RecordsOf("LarkException") :
                "attempt" \notin DOMAIN log[j]

\* C18 witness: two attempts answered with an HTTP failure, a third answered
\* with code 0: two warnings (1/3, 2/3) and one info record
C18_Witness ==
    /\ Done
    /\ Len(replies) = 3
    /\ RetriedKind(replies[1]) /\ RetriedKind(replies[2])
    /\ CodeZero(replies[3])
    /\ Len(log) = 3

\* C20: an attempt answered with a 2xx status and an envelope whose code is
\* -1 or absent is never a success: it is the last attempt of its call, the
\* call raised LarkException with code -1, and nothing is slept after it.
C20_UnclassifiedSuccessStatusRaises ==
    \A i \in 1..Len(replies) :
        (Unclassified(replies[i]) /\ Is2xx(replies[i])) =>
            /\ i = Len(replies)
            /\ Done
            /\ result.kind = "raise"
            /\ result.exc.type = "LarkException"
            /\ result.exc.code = -1
            /\ Attempts = i
            /\ Sleeps(i - 1)

\* C20 witness: a first attempt answered 200 with an envelope without code,
\* in a call that could have retried
C20_Witness ==
    /\ max_retries >= 2
    /\ Len(replies) = 1
    /\ replies[1].status = 200
    /\ Parsed(replies[1])
    /\ "code" \notin DOMAIN replies[1].body
    /\ Done

\* ---------------------------------------------------------- termination
\* C12: a call that is in the retry loop gets out of it: it never makes more
\* than max_retries attempts, it eventually is over with a value returned or
\* an exception raised, and once it is over it makes no further attempt.
C12_CallTerminates ==
    /\ [](Attempts > 0 => Attempts <= max_retries)
    /\ [](Done => result.kind \in {"return", "raise"})
    /\ (pc = "attempt") ~> Done
    /\ [][Done => (pc' # "attempt" /\ requests' \in {requests, <<>>})]_vars

\* C12 witness: a call that used all of its three attempts is over
C12_Witness ==
    /\ Done
    /\ max_retries = 3
    /\ Attempts = 3
    /\ result.kind = "raise"

\* --------------------------------------- acquisition and the retry loop
\* a token request is being answered in this step
TokenRequestAnswered == pc = "authorize" /\ pc' # pc

\* C21: within one endpoint call the token is requested once, before the
\* first attempt: a token request is only waited for by a call that has just
\* started, is answered while no attempt has been made, an attempt changes
\* neither the stored token nor the headers nor asks for a token, and all
\* requests of the call carry the same Authorization header, the one built
\* from the token request of this call.
C21_OneAcquisitionPerCall ==
    /\ [][(pc' = "authorize" /\ pc # "authorize") => calls' = calls + 1]_vars
    /\ [][(auth_call' # auth_call \/ auth_reply' # auth_reply \/ TokenRequestAnswered)
            => (pc = "authorize" /\ requests = <<>> /\ auth_call < calls
                /\ auth_call' = calls)]_vars
    /\ [][pc = "attempt"
            => (pc' # "authorize"
                /\ UNCHANGED <<auth_call, auth_reply, tenant_token, headers>>)]_vars
    /\ [](\A i \in 1..Len(requests) :
            /\ requests[i].headers = requests[1].headers
            /\ requests[i].headers = headers
            /\ auth_call = calls)

\* C21 witness: three attempts of one call, all with the header of its one
\* token request
C21_Witness ==
    /\ Len(requests) = 3
    /\ requests[3].headers = requests[1].headers
    /\ requests[2].headers = requests[1].headers
    /\ auth_call = calls
    /\ requests[1].headers.Authorization
           = "Bearer " \o auth_reply.body.tenant_access_token

\* C22: a token request answered with an HTTP failure status and an envelope
\* code of -1 or none ends the call at once, for every max_retries: the call
\* raises the HTTPError of that response, nothing is slept, no retry is
\* logged, no endpoint request is made, and no further token request follows
\* in the call.
C22_AcquisitionNotRetried ==
    /\ [][(TokenRequestAnswered /\ Unclassified(auth_reply') /\ Is4xx5xx(auth_reply'))
            => (/\ pc' = "done"
                /\ result' = Raise(HTTPError(auth_reply'))
                /\ slept' = <<>>
                /\ attempt' = 0
                /\ requests' = <<>>
                /\ RecordsOf("retry") = {}
                /\ log' = log)]_vars
    /\ [][(pc = "authorize" /\ pc' = "authorize") => UNCHANGED vars]_vars
    /\ [](pc = "authorize" => (slept = <<>> /\ attempt = 0))

\* C22 witness: a client that retries endpoint requests got 503 without a
\* code from the token endpoint
C22_Witness ==
    /\ max_retries = MaxRetries
    /\ Done
    /\ auth_call = calls
    /\ requests = <<>>
    /\ slept = <<>>
    /\ auth_reply.received
    /\ auth_reply.status = 503
    /\ Unclassified(auth_reply)
    /\ "code" \notin DOMAIN auth_reply.body
    /\ result = Raise(HTTPError(auth_reply))

\* C23: the stored tenant token changes only in the step that answers a token
\* request, and only when the response passed the envelope check; when the
\* request fails or the check raises, the token is the one held before.
C23_FailedAcquisitionKeepsToken ==
    /\ [][tenant_token' # tenant_token
            => (TokenRequestAnswered /\ AttemptException(auth_reply') = NoException)]_vars
    /\ [][(TokenRequestAnswered /\ AttemptException(auth_reply') # NoException)
            => (tenant_token' = tenant_token /\ pc' = "done" /\ result'.kind = "raise")]_vars
    /\ [][(TokenRequestAnswered /\ AttemptException(auth_reply') = NoException)
            => tenant_token' = Get(auth_reply'.body, "tenant_access_token", None)]_vars

\* C23 witness: the client holds t1 from the first call; the token request of
\* the second call is answered with an HTTP failure status and a body that
\* names t2
C23_Witness ==
    /\ calls = 2
    /\ auth_call = 2
    /\ Done
    /\ tenant_token = "t1"
    /\ auth_reply.received
    /\ Is4xx5xx(auth_reply)
    /\ Get(auth_reply.body, "tenant_access_token", None) = "t2"
    /\ result.kind = "raise"

\* C24: with max_retries <= 0 a call whose token request succeeded makes no
\* endpoint request and sleeps never, raises nothing and hands None to the
\* caller; the retry loop is never entered.
C24_NoRetriesReturnsNone ==
    max_retries <= 0 =>
        /\ pc # "attempt"
        /\ requests = <<>>
        /\ replies = <<>>
        /\ slept = <<>>
        /\ (Done /\ AcquiredThisCall /\ AcquisitionSucceeded(auth_reply))
              => result = ReturnNone

\* C24 witness: max_retries = -1, the token request answered with a token
C24_Witness ==
    /\ max_retries < 0
    /\ Done
    /\ auth_call = calls
    /\ AcquisitionSucceeded(auth_reply)
    /\ tenant_token = auth_reply.body.tenant_access_token
    /\ result = ReturnNone
    /\ requests = <<>>

\* ------------------------------------------------------- shared client
\* C13 (as claimed): with two callers on one client, the request a caller
\* sends carries the token its own token request returned.
C13_OwnTokenSent ==
    \A c \in Callers :
        c_sent[c] # None => c_sent[c] = "Bearer " \o c_acquired[c]

\* ------------------------------------------------------------ APIContainer
\* C19 (as claimed): reading an attribute that is not one of the defined
\* clients ends with None returned, nothing raised.
C19_UnknownAttributeIsNone ==
    (ga_name \notin Clients /\ ga_result \notin {"idle", "running"})
        => ga_result = "None"

\* ---------------------------------------------- claims on the user identity
\* an operation of the store has just been carried out
Called(name) == u_flip' # u_flip /\ u_op'.name = name
\* the requests the operation made to the token endpoints
NoNetworkCall == u_net' = <<>>
OneRequest(grant) == Len(u_net') = 1 /\ u_net'[1].grant = grant
AccessExpired == now >= user_access_token_expiry
RefreshExpired == now >= refresh_token_expiry

\* C14: in User mode, once a user token was minted with expires_in = 7200,
\* an authorization() call made less than 7200 seconds later returns the
\* stored user access token, makes no request to a token endpoint and leaves
\* the stored tokens and expiries as they are.
C14_FreshTokenReused ==
    [][(/\ Called("authorization")
        /\ identity_mode = "user"
        /\ minted.expires_in = 7200
        /\ now - minted.at < 7200)
       => (/\ NoNetworkCall
           /\ u_result' = Return("Bearer " \o user_access_token)
           /\ user_access_token # ""
           /\ UserTokensUnchanged)]_vars

\* C14: a call made after the minting, within the 7200 seconds, reused the token
C14_Witness ==
    /\ u_op.name = "authorization"
    /\ identity_mode = "user"
    /\ minted.expires_in = 7200
    /\ u_op.at > minted.at
    /\ u_op.at - minted.at < 7200
    /\ u_net = <<>>
    /\ u_result = Return("Bearer " \o user_access_token)

\* C15: in User mode, with the access token expired and the refresh token not,
\* authorization() makes exactly one request, of grant type refresh_token and
\* carrying the stored refresh token, never one of grant type
\* authorization_code; when the exchange succeeds both tokens are replaced by
\* the answered ones and both expiries are set from the answered lifetimes.
C15_RefreshGrantUsed ==
    [][(/\ Called("authorization")
        /\ identity_mode = "user"
        /\ AccessExpired
        /\ ~RefreshExpired)
       => (/\ OneRequest("refresh_token")
           /\ u_net'[1].sent = refresh_token
           /\ u_result'.kind = "return" =>
                LET body == u_net'[1].reply.body IN
                /\ user_access_token' = body.access_token
                /\ refresh_token' = body.refresh_token
                /\ user_access_token_expiry' = now + body.expires_in
                /\ refresh_token_expiry' = now + body.refresh_token_expires_in
                /\ u_result' = Return("Bearer " \o body.access_token))]_vars

\* C15: a refresh succeeded and both stored tokens changed
C15_Witness ==
    /\ u_op.name = "authorization"
    /\ Len(u_net) = 1
    /\ u_net[1].grant = "refresh_token"
    /\ u_result.kind = "return"
    /\ u_op.at = minted.at
    /\ u_op.at > 0
    /\ user_access_token = u_net[1].reply.body.access_token
    /\ refresh_token = u_net[1].reply.body.refresh_token
    /\ refresh_token # u_net[1].sent
    /\ user_access_token_expiry = u_op.at + u_net[1].reply.body.expires_in

\* C16: a successful authorization-code exchange clears the stored code; a
\* request of grant type authorization_code always carries the stored,
\* non-empty code; and an authorization() call in User mode with both tokens
\* expired and no code stored fails with MissingCode without any request.
C16_CodeConsumedOnce ==
    /\ [][(Called("authorization") /\ OneRequest("authorization_code"))
           => (/\ oauth_code # ""
               /\ u_net'[1].sent = oauth_code
               /\ u_result'.kind = "return" => oauth_code' = "")]_vars
    /\ [][(/\ Called("authorization")
            /\ identity_mode = "user"
            /\ AccessExpired
            /\ RefreshExpired
            /\ oauth_code = "")
           => (/\ NoNetworkCall
               /\ u_result' = Raise(MissingCode)
               /\ oauth_code' = "")]_vars

\* C16: tokens had been minted, both have expired, no code is stored, and the
\* call failed without a request
C16_Witness ==
    /\ u_op.name = "authorization"
    /\ identity_mode = "user"
    /\ minted.expires_in # 0
    /\ u_op.at >= refresh_token_expiry
    /\ u_op.at >= user_access_token_expiry
    /\ oauth_code = ""
    /\ u_net = <<>>
    /\ u_result = Raise(MissingCode)

\* C17: set_identity(mode) stores Tenant or User and for any other value fails
\* with InvalidIdentity leaving the mode as it was; authorization() under an
\* unrecognized mode fails with InvalidIdentity and makes no request.
C17_InvalidIdentityFailsFast ==
    /\ [][Called("set_identity")
           => IF u_op'.arg \in {"tenant", "user"}
              THEN identity_mode' = u_op'.arg /\ u_result'.kind = "return"
              ELSE /\ u_result' = Raise(InvalidIdentity)
                   /\ identity_mode' = identity_mode]_vars
    /\ [][(Called("authorization") /\ identity_mode \notin {"tenant", "user"})
           => (NoNetworkCall /\ u_result' = Raise(InvalidIdentity))]_vars

\* C17: set_identity was given a value that is neither Tenant nor User
C17_Witness ==
    /\ u_op.name = "set_identity"
    /\ u_op.arg \notin {"tenant", "user"}
    /\ u_result = Raise(InvalidIdentity)
    /\ identity_mode \in {"tenant", "user"}

\* ------------------------------------------------------- claims on utils
\* a value obj_2_dict gives a key to: string, list or tuple, dict
KeptType(v) == v.t \in {"str", "list", "tuple", "dict"}

RECURSIVE Clean(_)
\* every value of d is a string, a list or a dict, and so on in the dicts
\* that are values or direct elements of list values
Clean(d) ==
    \A k \in DOMAIN d.map :
        LET b == d.map[k] IN
        \/ b.t = "str"
        \/ b.t = "dict" /\ Clean(b)
        \/ b.t = "list" /\ \A j \in 1..Len(b.items) :
                                b.items[j].t = "dict" => Clean(b.items[j])

RECURSIVE Pruned(_, _)
\* d without the keys whose value is not of a kept type, in d and in the
\* dicts that are values or direct elements of list or tuple values; a tuple
\* value stays a tuple, or becomes a list when tuples_as_lists
Pruned(d, tuples_as_lists) ==
    Dict([a \in {k \in DOMAIN d.map : KeptType(d.map[k])} |->
        LET b == d.map[a] IN
        IF b.t = "dict" THEN Pruned(b, tuples_as_lists)
        ELSE IF IsSequence(b)
        THEN [t |-> IF tuples_as_lists THEN "list" ELSE b.t,
              items |-> [j \in 1..Len(b.items) |->
                           IF b.items[j].t = "dict"
                           THEN Pruned(b.items[j], tuples_as_lists)
                           ELSE b.items[j]]]
        ELSE b])

\* C25 as stated: the round trip of a dict of strings, lists and dicts gives
\* the dict back, and the round trip of any dict gives the dict without the
\* keys whose value is not a string, list, tuple or dict, the other values
\* as they were.
C25_RoundTripRemovesKeysOnly ==
    util_pc = "done" =>
        /\ Clean(util_d) => util_r = util_d
        /\ util_r = Pruned(util_d, FALSE)

\* C25: the round trip of a dict of strings, lists and dicts gives the dict
\* back; the round trip of any dict gives the dict without the keys whose
\* value is not a string, list, tuple or dict (in the dict and in the dicts
\* that are its values or direct elements of its list and tuple values), and
\* with every tuple value turned into a list of the same elements.
C25_RoundTrip ==
    util_pc = "done" =>
        /\ Clean(util_d) => util_r = util_d
        /\ util_r = Pruned(util_d, TRUE)
        /\ DOMAIN util_r.map = {k \in DOMAIN util_d.map : KeptType(util_d.map[k])}
        /\ \A k \in DOMAIN util_r.map :
              util_d.map[k].t = "tuple" =>
                  /\ util_r.map[k].t = "list"
                  /\ Len(util_r.map[k].items) = Len(util_d.map[k].items)

\* C25 witness: a tuple holding a dict with an integer, next to a None
C25_Witness ==
    /\ util_pc = "done"
    /\ DOMAIN util_d.map = {"a", "b"}
    /\ util_d.map["b"] = NoneValue
    /\ util_d.map["a"] = Tuple(<<Dict([k \in {"a"} |-> Number(1)])>>)
    /\ util_r = Dict([k \in {"a"} |-> List(<<Dict(<<>>)>>)])

====
